---------------------------- MODULE Spec2Model ----------------------------
(***************************************************************************)
(* A model of the Raqote backend of Piet (piet-raqote/src/lib.rs): the     *)
(* render context with its stack of per-scope transforms and the drawing   *)
(* surface's transform register, the pixel buffer ingestion of make_image  *)
(* and the colour packing helpers.                                         *)
(*                                                                         *)
(* An f64 is modelled by an integer (every integer of the model is exactly *)
(* representable in an f64), an f32 by the integers that have a 24 bit     *)
(* significand, and a u32 by its 32 bits, least significant first.         *)
(***************************************************************************)
EXTENDS Integers, Sequences, FiniteSets, TLC

VARIABLES
    ctx_stack,     \* RaqoteRenderContext.ctx_stack: the transform of each CtxState
    dt_transform,  \* the transform register of the borrowed DrawTarget (f32)
    dt_calls,      \* the calls the last operation issued on the DrawTarget
    lastOp,        \* the operation called last
    ret,           \* what it returned: Ok, an error, a panic, a value
    input,         \* the arguments of the pure conversion under study
    scopes,        \* history: per stack entry, its transform at save and the
                   \* transforms applied to it since, in call order
    pat,           \* history: how far the calls so far follow save^n restore^n finish
    closed         \* history: the scope the last call closed, if it was a restore

vars == <<ctx_stack, dt_transform, dt_calls, lastOp, ret, input, scopes, pat, closed>>

-----------------------------------------------------------------------------
(* Bounds of the model *)

MaxDepth == 3

MaxTransforms == 3

\* make_image: the longest pixel buffer, and how far the context is driven
\* while the buffer is ingested
MaxBuf == 4

ImgMaxDepth == 2

ImgMaxTransforms == 1

-----------------------------------------------------------------------------
(* Results *)

Ok == [tag |-> "Ok"]
Unit == [tag |-> "()"]
Panic == [tag |-> "panic"]
StackUnbalance == [tag |-> "Err", kind |-> "StackUnbalance"]
NotSupported == [tag |-> "Err", kind |-> "NotSupported"]
NoInput == [fn |-> "none"]
NoScope == "none"

-----------------------------------------------------------------------------
(* kurbo::Affine and euclid::Transform2D<f32>, both as their six coefficients *)

Identity == <<1, 0, 0, 1, 0, 0>>

AffineMulSwapped(self, other) ==
    << other[1] * self[1] + other[3] * self[2],
       other[2] * self[1] + other[4] * self[2],
       other[1] * self[3] + other[3] * self[4],
       other[2] * self[3] + other[4] * self[4],
       other[1] * self[5] + other[3] * self[6] + other[5],
       other[2] * self[5] + other[4] * self[6] + other[6] >>

\* impl Mul for Affine, as used by `*=` in transform
AffineMul(self, other) ==
    << self[1] * other[1] + self[3] * other[2],
       self[2] * other[1] + self[4] * other[2],
       self[1] * other[3] + self[3] * other[4],
       self[2] * other[3] + self[4] * other[4],
       self[1] * other[5] + self[3] * other[6] + self[5],
       self[2] * other[5] + self[4] * other[6] + self[6] >>

Abs(x) == IF x < 0 THEN -x ELSE x

RECURSIVE Ulp(_)
\* the spacing of the f32 values around the magnitude m (24 bit significand)
Ulp(m) == IF m < 16777216 THEN 1 ELSE 2 * Ulp(m \div 2)

\* `x as f32`: round to the nearest f32, ties to the even significand
ToF32(x) ==
    LET m == Abs(x)
        u == Ulp(m)
        q == m \div u
        r == m % u
        up == (2 * r > u) \/ (2 * r = u /\ q % 2 = 1)
        n == (IF up THEN q + 1 ELSE q) * u
    IN  IF x < 0 THEN -n ELSE n

affine_to_transform(affine) == [i \in 1..6 |-> ToF32(affine[i])]

\* the transforms a caller passes to transform(): a translation whose x is
\* not an f32, a non-uniform scale, a quarter turn
Transforms ==
    { <<1, 0, 0, 1, 16777217, 2>>,
      <<2, 0, 0, 3, 0, 0>>,
      <<0, 1, -1, 0, 0, 0>> }

\* the transform register of the surface the caller hands to new(): a fresh
\* DrawTarget holds the identity, a used one whatever set_transform left
SurfaceTransforms == { Identity, <<1, 0, 0, 1, 5, 7>> }

FillRules == {"EvenOdd", "NonZero"}

-----------------------------------------------------------------------------
(* u32, u16 and u8 *)

U8Max == 255

U16Modulus == 65536

BitIndex == 1..32

\* the u32 of a number below 2^31: bit i of the tuple is the bit of weight 2^(i-1)
U32(n) == [i \in BitIndex |-> IF i > 31 THEN 0 ELSE (n \div 2^(i - 1)) % 2]

\* `<<` on u32: the bits shifted out at the top are lost
Shl(v, n) == [i \in BitIndex |-> IF i > n THEN v[i - n] ELSE 0]

\* `>>` on u32
Shr(v, n) == [i \in BitIndex |-> IF i + n <= 32 THEN v[i + n] ELSE 0]

BitOr(v, w) == [i \in BitIndex |-> IF v[i] = 1 \/ w[i] = 1 THEN 1 ELSE 0]

BitAnd(v, w) == [i \in BitIndex |-> IF v[i] = 1 /\ w[i] = 1 THEN 1 ELSE 0]

\* `as u8`: the value of the low eight bits
AsU8(v) ==
    v[1] + 2 * v[2] + 4 * v[3] + 8 * v[4] + 16 * v[5] + 32 * v[6] + 64 * v[7] + 128 * v[8]

-----------------------------------------------------------------------------
(* Colour packing *)

split_rgba(rgba) ==
    << AsU8(Shr(rgba, 24)),
       AsU8(BitAnd(Shr(rgba, 16), U32(255))),
       AsU8(BitAnd(Shr(rgba, 8), U32(255))),
       AsU8(BitAnd(rgba, U32(255))) >>

\* Source::Solid(SolidSource { r, g, b, a })
solid_brush_result(rgba) ==
    LET c == split_rgba(rgba)
    IN  [r |-> c[1], g |-> c[2], b |-> c[3], a |-> c[4]]

rgba_to_arbg_shifts_swapped(rgba) == BitOr(Shl(rgba, 8), Shr(rgba, 24))

rgba_to_arbg(rgba) == BitOr(Shl(rgba, 24), Shr(rgba, 8))

\* premul in u16: a debug build panics where the product or the sum leaves
\* 16 bits, a release build wraps
premul_overflows(x, a) ==
    LET y == x * a
    IN  y >= U16Modulus \/ y + (y \div 256) + 128 >= U16Modulus

premul_truncating(x, a) ==
    LET y == (x * a) % U16Modulus
    IN  U32(((y + (y \div 256)) % U16Modulus) \div 256)

premul(x, a) ==
    LET y == (x * a) % U16Modulus
    IN  U32(((y + (y \div 256) + 128) % U16Modulus) \div 256)

-----------------------------------------------------------------------------
(* make_image *)

ImageFormats == {"Rgb", "RgbaPremul", "RgbaSeparate", "_NonExhaustive"}

RECURSIVE chunks(_, _)
\* slice::chunks(n): consecutive chunks of n bytes, the last one shorter
\* when the length is no multiple of n
chunks(buf, n) ==
    IF buf = <<>> THEN <<>>
    ELSE IF Len(buf) <= n THEN <<buf>>
    ELSE <<SubSeq(buf, 1, n)>> \o chunks(SubSeq(buf, n + 1, Len(buf)), n)

Or4(a, b, c, d) == BitOr(BitOr(BitOr(a, b), c), d)

RgbPixel_alpha_from_red(i) ==
    Or4(Shl(U32(i[1]), 24), Shl(U32(i[1]), 16), Shl(U32(i[2]), 8), U32(i[3]))

\* i[0] of the source is i[1] here
RgbPixel(i) ==
    Or4(Shl(U32(255), 24), Shl(U32(i[1]), 16), Shl(U32(i[2]), 8), U32(i[3]))

RgbaPremulPixel(i) ==
    Or4(Shl(U32(i[4]), 24), Shl(U32(i[1]), 16), Shl(U32(i[2]), 8), U32(i[3]))

RgbaSeparatePixel(i) ==
    LET a == i[4]
    IN  Or4(Shl(U32(a), 24), Shl(premul(i[1], a), 16),
            Shl(premul(i[2], a), 8), premul(i[3], a))

BytesPerPixel(format) == IF format = "Rgb" THEN 3 ELSE 4

\* the outcomes of make_image: an index past a short last chunk panics, and
\* so does an overflowing premul in a debug build; width and height are
\* below 2^31 here, where `as i32` keeps the value
make_image_outcomes(width, height, buf, format) ==
    LET cs == chunks(buf, BytesPerPixel(format))
        img(px(_)) == [tag |-> "Image", width |-> width, height |-> height,
                       data |-> [k \in 1..Len(cs) |-> px(cs[k])]]
        short == \E k \in 1..Len(cs) : Len(cs[k]) < BytesPerPixel(format)
    IN  CASE format = "Rgb" ->
               IF short THEN {Panic} ELSE {img(RgbPixel)}
          [] format = "RgbaPremul" ->
               IF short THEN {Panic} ELSE {img(RgbaPremulPixel)}
          [] format = "RgbaSeparate" ->
               IF short THEN {Panic}
               ELSE {img(RgbaSeparatePixel)}
                    \cup
                    (IF \E k \in 1..Len(cs), c \in 1..3 :
                            premul_overflows(cs[k][c], cs[k][4])
                     THEN {Panic} ELSE {})
          [] OTHER -> {NotSupported}

-----------------------------------------------------------------------------
(* History *)

Top(s) == s[Len(s)]

Front(s) == SubSeq(s, 1, Len(s) - 1)

RECURSIVE TransformCount(_)
TransformCount(sc) ==
    IF sc = <<>> THEN 0 ELSE Len(Top(sc).ms) + TransformCount(Front(sc))

PatOff == [phase |-> "off", saves |-> 0, restores |-> 0]

PatAfter(op) ==
    CASE op = "save" ->
            IF pat.phase = "saves"
            THEN [pat EXCEPT !.saves = @ + 1]
            ELSE PatOff
      [] op = "restore" ->
            IF pat.phase \in {"saves", "restores"} /\ pat.restores < pat.saves
            THEN [pat EXCEPT !.phase = "restores", !.restores = @ + 1]
            ELSE PatOff
      [] op = "finish" ->
            IF pat.phase \in {"saves", "restores"} /\ pat.restores = pat.saves
            THEN [pat EXCEPT !.phase = "finished"]
            ELSE PatOff
      [] OTHER -> IF pat.phase = "finished" THEN PatOff ELSE pat

-----------------------------------------------------------------------------
(* The render context *)

\* RaqoteRenderContext::new over a caller-supplied DrawTarget
new ==
    /\ ctx_stack = <<Identity>>
    /\ dt_transform \in SurfaceTransforms
    /\ dt_calls = <<>>
    /\ lastOp = "new"
    /\ ret = Unit
    /\ scopes = << [base |-> Identity, ms |-> <<>>] >>
    /\ pat = [phase |-> "saves", saves |-> 0, restores |-> 0]
    /\ closed = NoScope

Init == new /\ input = NoInput

\* a panic unwinds out of the caller: nothing runs after it
Running == ret # Panic

\* current_transform: last().unwrap() panics on an empty stack
current_transform_panics == ctx_stack = <<>>

current_transform == Top(ctx_stack)

pop_state(stack) == IF stack = <<>> THEN stack ELSE Front(stack)

Aborted(op) ==
    /\ lastOp' = op
    /\ ret' = Panic
    /\ dt_calls' = <<>>
    /\ pat' = PatAfter(op)
    /\ UNCHANGED <<ctx_stack, dt_transform, input, scopes, closed>>

save ==
    /\ Running
    /\ IF current_transform_panics
       THEN Aborted("save")
       ELSE /\ ctx_stack' = Append(ctx_stack, current_transform)
            /\ scopes' = Append(scopes, [base |-> current_transform, ms |-> <<>>])
            /\ lastOp' = "save"
            /\ ret' = Ok
            /\ dt_calls' = <<>>
            /\ pat' = PatAfter("save")
            /\ closed' = NoScope
            /\ UNCHANGED <<dt_transform, input>>

restore_off_by_one ==
    /\ Running
    /\ lastOp' = "restore"
    /\ pat' = PatAfter("restore")
    /\ IF Len(ctx_stack) <= 2
       THEN /\ ret' = StackUnbalance
            /\ dt_calls' = <<>>
            /\ closed' = NoScope
            /\ UNCHANGED <<ctx_stack, dt_transform, input, scopes>>
       ELSE /\ ctx_stack' = pop_state(ctx_stack)
            /\ dt_transform' = affine_to_transform(Top(ctx_stack'))
            /\ dt_calls' = << [fn |-> "set_transform", arg |-> dt_transform'] >>
            /\ ret' = Ok
            /\ scopes' = Front(scopes)
            /\ closed' = Top(scopes)
            /\ UNCHANGED input

restore_pops_before_check ==
    /\ Running
    /\ lastOp' = "restore"
    /\ pat' = PatAfter("restore")
    /\ ctx_stack' = pop_state(ctx_stack)
    /\ scopes' = pop_state(scopes)
    /\ IF Len(ctx_stack') < 1
       THEN /\ ret' = StackUnbalance
            /\ dt_calls' = <<>>
            /\ closed' = NoScope
            /\ UNCHANGED <<dt_transform, input>>
       ELSE /\ dt_transform' = affine_to_transform(Top(ctx_stack'))
            /\ dt_calls' = << [fn |-> "set_transform", arg |-> dt_transform'] >>
            /\ ret' = Ok
            /\ closed' = Top(scopes)
            /\ UNCHANGED input

restore ==
    /\ Running
    /\ lastOp' = "restore"
    /\ pat' = PatAfter("restore")
    /\ IF Len(ctx_stack) <= 1
       THEN /\ ret' = StackUnbalance
            /\ dt_calls' = <<>>
            /\ closed' = NoScope
            /\ UNCHANGED <<ctx_stack, dt_transform, input, scopes>>
       ELSE /\ ctx_stack' = pop_state(ctx_stack)
            /\ dt_transform' = affine_to_transform(Top(ctx_stack'))
            /\ dt_calls' = << [fn |-> "set_transform", arg |-> dt_transform'] >>
            /\ ret' = Ok
            /\ scopes' = Front(scopes)
            /\ closed' = Top(scopes)
            /\ UNCHANGED input

finish_guard_of_restore ==
    /\ Running
    /\ lastOp' = "finish"
    /\ pat' = PatAfter("finish")
    /\ dt_calls' = <<>>
    /\ closed' = NoScope
    /\ IF Len(ctx_stack) <= 1
       THEN /\ ret' = StackUnbalance
            /\ UNCHANGED <<ctx_stack, dt_transform, input, scopes>>
       ELSE /\ ctx_stack' = pop_state(ctx_stack)
            /\ scopes' = Front(scopes)
            /\ ret' = Ok
            /\ UNCHANGED <<dt_transform, input>>

finish ==
    /\ Running
    /\ lastOp' = "finish"
    /\ pat' = PatAfter("finish")
    /\ dt_calls' = <<>>
    /\ closed' = NoScope
    /\ IF Len(ctx_stack) # 1
       THEN /\ ret' = StackUnbalance
            /\ UNCHANGED <<ctx_stack, dt_transform, input, scopes>>
       ELSE /\ ctx_stack' = pop_state(ctx_stack)
            /\ scopes' = Front(scopes)
            /\ ret' = Ok
            /\ UNCHANGED <<dt_transform, input>>

transform(M) ==
    /\ Running
    /\ IF ctx_stack = <<>>
       THEN Aborted("transform")
       ELSE /\ ctx_stack' = [ctx_stack EXCEPT ![Len(ctx_stack)] = AffineMul(@, M)]
            /\ dt_transform' = affine_to_transform(Top(ctx_stack'))
            /\ dt_calls' = << [fn |-> "set_transform", arg |-> dt_transform'] >>
            /\ scopes' = [scopes EXCEPT ![Len(scopes)].ms = Append(@, M)]
            /\ lastOp' = "transform"
            /\ ret' = Unit
            /\ pat' = PatAfter("transform")
            /\ closed' = NoScope
            /\ UNCHANGED input

\* a draw call hands a path and a source to the DrawTarget, which rasterizes
\* it under its own transform register
Draw(op, calls) ==
    /\ Running
    /\ lastOp' = op
    /\ ret' = Unit
    /\ dt_calls' = calls
    /\ pat' = PatAfter(op)
    /\ closed' = NoScope
    /\ UNCHANGED <<ctx_stack, dt_transform, input, scopes>>

fill(fill_rule) ==
    Draw("fill", << [fn |-> "fill", winding |-> fill_rule] >>)

stroke == Draw("stroke", << [fn |-> "stroke"] >>)

clip == Draw("clip", <<>>)

draw_image_places_by_register ==
    /\ Running
    /\ lastOp' = "draw_image"
    /\ ret' = Unit
    /\ dt_transform' = Identity
    /\ dt_calls' = << [fn |-> "set_transform", arg |-> Identity],
                      [fn |-> "fill", winding |-> "NonZero"] >>
    /\ pat' = PatAfter("draw_image")
    /\ closed' = NoScope
    /\ UNCHANGED <<ctx_stack, input, scopes>>

draw_image ==
    Draw("draw_image", << [fn |-> "fill", winding |-> "NonZero"] >>)

\* make_image(width, height, buf, format): touches neither the stack nor
\* the surface
make_image ==
    /\ Running
    /\ input.fn = "make_image"
    /\ ret' \in make_image_outcomes(input.width, input.height, input.buf, input.format)
    /\ lastOp' = "make_image"
    /\ dt_calls' = <<>>
    /\ pat' = PatAfter("make_image")
    /\ closed' = NoScope
    /\ UNCHANGED <<ctx_stack, dt_transform, input, scopes>>

\* the state a call of a pure helper leaves: only its value is new
Returns(op, value) ==
    /\ Running
    /\ lastOp' = op
    /\ ret' = value
    /\ dt_calls' = <<>>
    /\ pat' = PatAfter(op)
    /\ closed' = NoScope
    /\ UNCHANGED <<ctx_stack, dt_transform, input, scopes>>

solid_brush ==
    /\ input.fn = "solid_brush"
    /\ Returns("solid_brush", solid_brush_result(input.rgba))

\* the stops of a linear or radial gradient, colours repacked
gradient ==
    /\ input.fn = "gradient"
    /\ Returns("gradient",
               [tag |-> "Gradient",
                stops |-> [k \in 1..Len(input.stops) |->
                    [position |-> input.stops[k].pos,
                     color |-> rgba_to_arbg(input.stops[k].rgba)]]])

\* premul(x, a), the helper of make_image's RgbaSeparate branch
premul_call ==
    /\ input.fn = "premul"
    /\ \E v \in {[tag |-> "u32", v |-> premul(input.x, input.a)]}
                \cup (IF premul_overflows(input.x, input.a) THEN {Panic} ELSE {}) :
          Returns("premul", v)

Next ==
    \/ Len(ctx_stack) < MaxDepth /\ save
    \/ restore
    \/ finish
    \/ TransformCount(scopes) < MaxTransforms /\ \E M \in Transforms : transform(M)
    \/ \E fill_rule \in FillRules : fill(fill_rule)
    \/ stroke
    \/ clip
    \/ draw_image

Spec == Init /\ [][Next]_vars

-----------------------------------------------------------------------------
(* make_image on a context in use *)

ImageBytes == {64, 128, 255}

Bufs == UNION { [1..n -> ImageBytes] : n \in 0..MaxBuf }

ImageInputs ==
    [fn : {"make_image"}, width : {1}, height : {1},
     buf : Bufs, format : ImageFormats]

InitImage == new /\ input \in ImageInputs

NextImage ==
    \/ make_image
    \/ Len(ctx_stack) < ImgMaxDepth /\ save
    \/ restore
    \/ finish
    \/ TransformCount(scopes) < ImgMaxTransforms /\ \E M \in Transforms : transform(M)

SpecImage == InitImage /\ [][NextImage]_vars

-----------------------------------------------------------------------------
(* The colour helpers on their own *)

ByteBit(b, k) == (b \div 2^k) % 2

\* the u32 whose bytes are b3 (most significant), b2, b1, b0
Pack(b3, b2, b1, b0) ==
    [i \in BitIndex |->
        LET k == (i - 1) % 8
            n == (i - 1) \div 8
        IN  ByteBit(CASE n = 0 -> b0 [] n = 1 -> b1 [] n = 2 -> b2 [] OTHER -> b3, k)]

ColourBytes == {0, 1, 127, 128, 255}

Colours == { Pack(r, g, b, a) : r, g, b, a \in ColourBytes }

ColourInputs ==
    [fn : {"premul"}, x : 0..U8Max, a : 0..U8Max]
    \cup [fn : {"solid_brush"}, rgba : Colours]
    \cup { [fn |-> "gradient", stops |-> << [pos |-> 0, rgba |-> c] >>] : c \in Colours }

InitColour == new /\ input \in ColourInputs

NextColour ==
    \/ premul_call
    \/ solid_brush
    \/ gradient

SpecColour == InitColour /\ [][NextColour]_vars

-----------------------------------------------------------------------------
(* Properties of the render context *)

DrawOps == {"fill", "stroke", "draw_image", "clip"}

\* the 3x3 matrix of an affine map, and the product of such matrices
Mat(a) == << <<a[1], a[3], a[5]>>, <<a[2], a[4], a[6]>>, <<0, 0, 1>> >>

MatMul(A, B) ==
    [i \in 1..3 |-> [j \in 1..3 |->
        A[i][1] * B[1][j] + A[i][2] * B[2][j] + A[i][3] * B[3][j]]]

RECURSIVE Compose(_, _)
\* base * ms[1] * ... * ms[n], each applied on the right, in order
Compose(base, ms) ==
    IF ms = <<>> THEN Mat(base)
    ELSE MatMul(Compose(base, Front(ms)), Mat(Top(ms)))

\* C1: while the calls made on a fresh context are n saves followed by at
\* most n restores (transform and draw calls interleaved anywhere), every
\* one of those saves and restores returned Ok and the depth is
\* 1 + saves - restores, so it is 1 again after the n-th restore; a finish
\* called then returns Ok.
C1_StackBalance ==
    /\ pat.phase \in {"saves", "restores"} =>
          (/\ (lastOp \in {"save", "restore"} => ret = Ok)
           /\ Len(ctx_stack) = 1 + pat.saves - pat.restores)
    /\ pat.phase = "finished" => lastOp = "finish" /\ ret = Ok

C1_Witness ==
    /\ pat.phase = "finished"
    /\ pat.saves = 2
    /\ pat.restores = 2

\* C2: a restore called at depth less than 2 returns StackUnbalance and
\* leaves the stack and the surface's transform register as they were.
C2_UnmatchedRestore ==
    [][(lastOp' = "restore" /\ Len(ctx_stack) < 2) =>
         /\ ret' = StackUnbalance
         /\ ctx_stack' = ctx_stack
         /\ dt_transform' = dt_transform]_vars

C2_Witness ==
    /\ lastOp = "restore"
    /\ ret = StackUnbalance
    /\ Len(ctx_stack) = 1
    /\ ctx_stack[1] # Identity
    /\ dt_transform # Identity

\* C3: finish returns Ok exactly when the depth is 1, and then pops the
\* root entry and leaves the stack empty; at any other depth it returns
\* StackUnbalance and leaves the stack and the register as they were.
C3_Finish ==
    [][lastOp' = "finish" =>
         IF Len(ctx_stack) = 1
         THEN ret' = Ok /\ ctx_stack' = <<>>
         ELSE /\ ret' = StackUnbalance
              /\ ctx_stack' = ctx_stack
              /\ dt_transform' = dt_transform]_vars

C3_Witness ==
    /\ lastOp = "finish"
    /\ ret = StackUnbalance
    /\ Len(ctx_stack) >= 2
    /\ Top(ctx_stack) # ctx_stack[1]

\* C4: every stack entry holds the transform it had when its scope was
\* opened, multiplied on the right by the transforms applied in that scope,
\* in call order; an entry below the top is what it was when the scope above
\* it was opened; and a restore makes the effective transform the one that
\* was effective at the matching save.
C4_Composition ==
    /\ Len(scopes) = Len(ctx_stack)
    /\ \A i \in 1..Len(ctx_stack) :
          /\ Mat(ctx_stack[i]) = Compose(scopes[i].base, scopes[i].ms)
          /\ (i > 1 => ctx_stack[i - 1] = scopes[i].base)
    /\ (lastOp = "restore" /\ ret = Ok) => Top(ctx_stack) = closed.base

C4_Witness ==
    /\ lastOp = "restore"
    /\ ret = Ok
    /\ Len(ctx_stack) >= 2
    /\ Len(closed.ms) = 2
    /\ AffineMul(closed.ms[1], closed.ms[2]) # AffineMul(closed.ms[2], closed.ms[1])
    /\ closed.base # Identity

\* C5: while the context is open, the surface's transform register equals
\* the transform of the topmost stack entry.
C5_RegisterTracksTop ==
    ctx_stack # <<>> => dt_transform = Top(ctx_stack)

\* C6: save and transform never abort: save returns Ok, adds one entry and
\* the new top is a copy of the previous top; transform keeps the depth.
C6_SaveTransformSucceed ==
    [][ ((lastOp' = "save") =>
            (/\ ret' = Ok
             /\ ctx_stack # <<>>
             /\ ctx_stack' = Append(ctx_stack, Top(ctx_stack))))
        /\
        ((lastOp' = "transform") =>
            (/\ ret' = Unit
             /\ Len(ctx_stack') = Len(ctx_stack))) ]_vars

\* C7: fill, stroke, draw_image and clip on an open context leave the
\* stack and the surface's transform register as they were.
C7_DrawFrame ==
    [][(lastOp' \in DrawOps /\ ctx_stack # <<>>) =>
         /\ ctx_stack' = ctx_stack
         /\ dt_transform' = dt_transform]_vars

C7_Witness ==
    /\ lastOp = "draw_image"
    /\ Len(ctx_stack) >= 2
    /\ dt_transform # Identity
    /\ Top(ctx_stack) # Identity


-----------------------------------------------------------------------------
(* Properties of the conversions *)

RECURSIVE U32Value(_, _)
\* the number the low n bits of v stand for
U32Value(v, n) == IF n = 0 THEN 0 ELSE v[n] * 2^(n - 1) + U32Value(v, n - 1)

\* the number a u32 below 2^31 stands for
Value(v) == U32Value(v, 31)

\* x * a / 255 rounded to the nearest integer (255 is odd: there is no tie)
Round255(y) == (2 * y + 255) \div 510

PremulOf(v, x, a) == input.x = x /\ input.a = a => Value(ret.v) = v

PremulExamples ==
    /\ PremulOf(128, 255, 128)
    /\ PremulOf(64, 128, 128)
    /\ PremulOf(32, 64, 128)

\* C8 as stated: premul never leaves 16 bits and equals x * a / 255 rounded
\* to the nearest integer, with the three values of the example pixel.
C8_PremulIsRound ==
    lastOp = "premul" =>
        /\ ret # Panic
        /\ ~premul_overflows(input.x, input.a)
        /\ ret.v[32] = 0
        /\ Value(ret.v) = Round255(input.x * input.a)
        /\ PremulExamples

\* C8, amended: premul never leaves 16 bits and is x * a / 255 rounded to
\* the nearest integer or one less than it; it is exact where x or a is 0 or
\* 255, and on the three values of the example pixel.
C8_PremulNearRound ==
    lastOp = "premul" =>
        /\ ret # Panic
        /\ ~premul_overflows(input.x, input.a)
        /\ ret.v[32] = 0
        /\ Value(ret.v) \in {Round255(input.x * input.a), Round255(input.x * input.a) - 1}
        /\ (input.x \in {0, U8Max} \/ input.a \in {0, U8Max}) =>
               Value(ret.v) = Round255(input.x * input.a)
        /\ PremulExamples

C8_Witness ==
    /\ lastOp = "premul"
    /\ ret # Panic
    /\ input.x = 152
    /\ input.a = 229
    /\ Value(ret.v) = 136
    /\ Round255(input.x * input.a) = 137

RotR8(v) == [i \in BitIndex |-> v[((i + 7) % 32) + 1]]

RotL8(v) == [i \in BitIndex |-> v[((i + 23) % 32) + 1]]

\* byte n of a u32, byte 3 the most significant
ByteOf(v, n) == AsU8(Shr(v, 8 * n))

\* C9: split_rgba yields the four bytes of its argument, red the most
\* significant, and shifting them back reproduces the argument;
\* rgba_to_arbg is the rotation to the right by 8 bits, which leaves alpha
\* in the most significant byte, then red, green, blue, and the rotation to
\* the left by 8 bits is its inverse on both sides.
C9_ColourPacking ==
    /\ lastOp = "solid_brush" =>
          /\ ret.r = ByteOf(input.rgba, 3)
          /\ Pack(ret.r, ret.g, ret.b, ret.a) = input.rgba
          /\ Or4(Shl(U32(ret.r), 24), Shl(U32(ret.g), 16), Shl(U32(ret.b), 8), U32(ret.a))
                = input.rgba
    /\ lastOp = "gradient" =>
          LET rgba == input.stops[1].rgba
              argb == ret.stops[1].color
          IN  /\ argb = RotR8(rgba)
              /\ RotL8(argb) = rgba
              /\ rgba_to_arbg(RotL8(rgba)) = rgba
              /\ argb = Pack(ByteOf(rgba, 0), ByteOf(rgba, 3), ByteOf(rgba, 2), ByteOf(rgba, 1))

C9_Witness ==
    /\ lastOp = "gradient"
    /\ input.stops[1].rgba = Pack(255, 128, 1, 127)
    /\ ret.stops[1].color = Pack(127, 255, 128, 1)

SupportedFormats == {"Rgb", "RgbaPremul", "RgbaSeparate"}

\* what make_image's pixel k is to hold: alpha first, then red, green, blue
ExpectedPixel(buf, format, k) ==
    CASE format = "Rgb" ->
           Pack(255, buf[3 * k - 2], buf[3 * k - 1], buf[3 * k])
      [] format = "RgbaPremul" ->
           Pack(buf[4 * k], buf[4 * k - 3], buf[4 * k - 2], buf[4 * k - 1])
      [] OTHER ->
           Pack(buf[4 * k],
                Value(premul(buf[4 * k - 3], buf[4 * k])),
                Value(premul(buf[4 * k - 2], buf[4 * k])),
                Value(premul(buf[4 * k - 1], buf[4 * k])))

ImageOf(r, buf, format) ==
    /\ r.tag = "Image"
    /\ Len(r.data) * BytesPerPixel(format) >= Len(buf)
    /\ Len(r.data) * BytesPerPixel(format) < Len(buf) + BytesPerPixel(format)
    /\ \A k \in 1..Len(r.data) : r.data[k] = ExpectedPixel(buf, format, k)

\* C10 as stated: with an unsupported format make_image returns the
\* NotSupported error, with a supported one an Image of alpha-first pixels;
\* either way the stack and the surface stay as they were.
C10_MakeImage ==
    [][lastOp' = "make_image" =>
         /\ ctx_stack' = ctx_stack
         /\ dt_transform' = dt_transform
         /\ dt_calls' = <<>>
         /\ IF input.format \in SupportedFormats
            THEN ImageOf(ret', input.buf, input.format)
            ELSE ret' = NotSupported]_vars

\* C10, amended: with an unsupported format make_image returns the
\* NotSupported error; with a supported one and a buffer of whole pixels it
\* returns an Image with one alpha-first pixel per 3 (Rgb) or 4 bytes; with
\* a supported one and a buffer that ends in a partial pixel it panics and
\* returns nothing. In every case the stack and the surface stay as they were.
C10_MakeImageWholePixels ==
    [][lastOp' = "make_image" =>
         /\ ctx_stack' = ctx_stack
         /\ dt_transform' = dt_transform
         /\ dt_calls' = <<>>
         /\ IF input.format \notin SupportedFormats
            THEN ret' = NotSupported
            ELSE IF Len(input.buf) % BytesPerPixel(input.format) = 0
            THEN /\ ImageOf(ret', input.buf, input.format)
                 /\ Len(ret'.data) * BytesPerPixel(input.format) = Len(input.buf)
            ELSE ret' = Panic]_vars

C10_Witness ==
    /\ lastOp = "make_image"
    /\ input.format = "Rgb"
    /\ input.buf = <<64, 128, 255>>
    /\ ret.tag = "Image"
    /\ ret.data = << Pack(255, 64, 128, 255) >>
    /\ Len(ctx_stack) = 2
    /\ Top(ctx_stack) # Identity
=============================================================================
